---- MODULE Spec2Model ----
(***************************************************************************)
(* A model of financial_planning/financial.py: the rate model, the cash    *)
(* sources, the instruments (Asset, Liability), the cash handlers and the  *)
(* monthly loop of process().                                              *)
(*                                                                         *)
(* Dates are first-of-month dates, written as a month index (an integer);  *)
(* for such dates _months_between is the difference of the indices.        *)
(* Amounts are integers; a product with a compounding multiplier and the   *)
(* quotient of the amortization formula are rounded to the nearest unit,   *)
(* sums and differences are exact.                                         *)
(*                                                                         *)
(* The objects are used in one of two ways: a caller calls one instrument  *)
(* (and handlers of it) directly, at dates and with amounts of its choice, *)
(* or process() is run, up to MaxRuns times, on one configuration of       *)
(* sources, instruments and cash handler.                                  *)
(***************************************************************************)
EXTENDS Integers, Sequences, FiniteSets, TLC

\* financial.py:9  _MONTHS_IN_YEAR
MonthsInYear == 12

\* Bounds of the model.
\* process() is run over 0..MaxMonths dates in the grid of configurations.
MaxMonths == 3
\* The end-to-end examples run over this many dates.
ExampleMonths == 12
\* Dates of direct calls on an instrument are 0..MaxDate.
MaxDate == 3
\* Direct deposits are made while the stored value is below this.
MaxWorth == 10
\* process() is called this many times on the same objects.
MaxRuns == 2

Max(a, b) == IF a >= b THEN a ELSE b
Min(a, b) == IF a <= b THEN a ELSE b

\* a / b rounded to the nearest integer (b > 0).
Round(a, b) == (2 * a + b) \div (2 * b)

RECURSIVE Pow(_, _)
Pow(b, e) == IF e <= 0 THEN 1 ELSE b * Pow(b, e - 1)

\* A multiplier is the ratio num / den; amount * multiplier.
Times(amount, m) == Round(amount * m.num, m.den)

---------------------------------------------------------------------------
\* Results of calls that may raise.
Ok(v)  == [err |-> FALSE, val |-> v]
Raise  == [err |-> TRUE, val |-> 0]

---------------------------------------------------------------------------
\* AnnualFixedRate: the rates 0.0 and 1.0, the ends of the range its
\* constructor accepts.
Rates == {0, 1}

\* _months_between for first-of-month dates.
MonthsBetween(first, second) == second - first

\* AnnualFixedRate.multiplier: pow(1 + rate/12, months), with rate 0 before
\* start_date. pow(1, months) is 1 for every months, negative ones too.
Multiplier(rate, start_date, date) ==
    LET r      == IF date >= start_date THEN rate ELSE 0
        months == MonthsBetween(start_date, date)
    IN  IF r = 0
        THEN [num |-> 1, den |-> 1]
        ELSE [num |-> Pow(MonthsInYear + r, months),
              den |-> Pow(MonthsInYear, months)]

---------------------------------------------------------------------------
\* Sources.
DateRangeSource(initial_monthly, start_date, end_date, growth) ==
    [kind |-> "range", initial_monthly |-> initial_monthly,
     start_date |-> start_date, end_date |-> end_date, growth |-> growth]

\* end_date = None
NoDate == -1

OneTimeSource(amount, date) ==
    [kind |-> "once", amount |-> amount, date |-> date]

\* DateRangeSource.monthly_amount and OneTimeSource.monthly_amount
MonthlyAmount(src, date) ==
    IF src.kind = "range"
    THEN IF date < src.start_date
            \/ (src.end_date # NoDate /\ date > src.end_date)
         THEN 0
         ELSE Times(src.initial_monthly,
                    Multiplier(src.growth, src.start_date, date))
    ELSE IF date = src.date THEN src.amount ELSE 0

---------------------------------------------------------------------------
\* _minimum_payment
MinimumPayment(principal, rate, remaining_intervals) ==
    IF rate = 0
    THEN Round(-principal, remaining_intervals)
    ELSE LET p == Pow(MonthsInYear + rate, remaining_intervals)
             q == Pow(MonthsInYear, remaining_intervals)
         IN  Round(-principal * rate * p, MonthsInYear * (p - q))

\* Asset.__init__ (FinancialInstrument.__init__ and the assertion value >= 0)
Asset(value, start_date, rate) ==
    [kind |-> "asset", start_value |-> value, value |-> value,
     start_date |-> start_date, value_date |-> start_date, rate |-> rate]

\* Liability.__init__
Liability(value, start_date, duration_months, rate) ==
    [kind |-> "liability", start_value |-> value, value |-> value,
     start_date |-> start_date, value_date |-> start_date, rate |-> rate,
     end_date |-> start_date + duration_months,
     minimum_monthly |-> MinimumPayment(value, rate, duration_months)]

\* FinancialInstrument.reset
Reset(self) ==
    [self EXCEPT !.value = self.start_value, !.value_date = self.start_date]

\* FinancialInstrument.value. ValueNoRaise is the faulty variant without the
\* check of the cursor.
ValueNoRaise(self, date) ==
    IF date < self.start_date THEN Ok(0)
    ELSE IF date = self.value_date THEN Ok(self.value)
    ELSE Ok(Times(self.value, Multiplier(self.rate, self.value_date, date)))

Value(self, date) ==
    IF date < self.start_date THEN Ok(0)
    ELSE IF date < self.value_date THEN Raise
    ELSE IF date = self.value_date THEN Ok(self.value)
    ELSE Ok(Times(self.value, Multiplier(self.rate, self.value_date, date)))

\* The result of a call that changes an instrument: the instrument after the
\* call and the value returned; err when the call raised (self unchanged).
Done(self, ret) == [err |-> FALSE, self |-> self, ret |-> ret]
Failed(self)    == [err |-> TRUE, self |-> self, ret |-> 0]

\* FinancialInstrument._transact
Transact(self, amount, date) ==
    LET v == Value(self, date)
    IN  IF v.err THEN Failed(self)
        ELSE Done([self EXCEPT !.value = v.val + amount, !.value_date = date], 0)

\* Asset.transact. AssetTransactNoClamp is the faulty variant that withdraws
\* the full amount.
AssetTransactNoClamp(self, amount, date) == Transact(self, amount, date)

AssetTransact(self, amount, date) ==
    IF amount < 0
    THEN LET v == Value(self, date)
         IN  IF v.err THEN Failed(self)
             ELSE LET can_withdraw == Max(-v.val, amount)
                      remainder    == amount - can_withdraw
                      t            == Transact(self, can_withdraw, date)
                  IN  IF t.err THEN t ELSE Done(t.self, remainder)
    ELSE Transact(self, amount, date)

\* Liability.minimum_monthly
MinimumMonthly(self, date) ==
    LET v == Value(self, date)
    IN  IF v.err THEN Raise ELSE Ok(Min(self.minimum_monthly, -v.val))

\* Liability.make_payment. MakePaymentNoCap is the faulty variant that
\* applies the whole payment.
MakePaymentNoCap(self, payment, date) ==
    IF payment < 0 THEN Failed(self)
    ELSE IF date < self.start_date THEN Done(self, payment)
    ELSE LET t == Transact(self, payment, date)
         IN  IF t.err THEN t ELSE Done(t.self, 0)

MakePayment(self, payment, date) ==
    IF payment < 0 THEN Failed(self)
    ELSE IF date < self.start_date THEN Done(self, payment)
    ELSE LET v == Value(self, date)
         IN  IF v.err THEN Failed(self)
             ELSE LET actual_payment == Min(-v.val, payment)
                      t == Transact(self, actual_payment, date)
                  IN  IF t.err THEN t ELSE Done(t.self, payment - actual_payment)

---------------------------------------------------------------------------
\* Cash handlers. A handler names its asset by its key in the pool of
\* instrument objects; handling cash changes the pool.
BasicCashHandler(asset) == [type |-> "basic", asset |-> asset]
MaxValueCashHandler(asset, max_value) ==
    [type |-> "max", asset |-> asset, max_value |-> max_value]
SequentialCashHandler(handlers) == [type |-> "seq", handlers |-> handlers]
\* cash_handler = None
NoHandler == [type |-> "none"]

\* The result of handle_cash: the pool after the call and the cash left over.
Handled(p, ret)  == [err |-> FALSE, pool |-> p, ret |-> ret]
Unhandled(p)     == [err |-> TRUE, pool |-> p, ret |-> 0]

\* BasicCashHandler.handle_cash
BasicHandleCash(h, p, cash, date) ==
    LET t == AssetTransact(p[h.asset], cash, date)
    IN  IF t.err THEN Unhandled(p)
        ELSE Handled([p EXCEPT ![h.asset] = t.self], t.ret)

\* MaxValueCashHandler.handle_cash: the contribution of lines 168-169.
\* MaxValueContributionAll is the faulty variant that ignores the ceiling.
MaxValueContributionAll(max_value, value, cash) == cash

MaxValueContribution(max_value, value, cash) ==
    Min(Max(0, max_value - value), cash)

\* MaxValueCashHandler.handle_cash
MaxValueHandleCash(h, p, cash, date) ==
    IF cash > 0
    THEN LET v == Value(p[h.asset], date)
         IN  IF v.err THEN Unhandled(p)
             ELSE LET contribution == MaxValueContribution(h.max_value, v.val, cash)
                      remainder    == cash - contribution
                      t == AssetTransact(p[h.asset], contribution, date)
                  IN  IF t.err THEN Unhandled(p)
                      ELSE Handled([p EXCEPT ![h.asset] = t.self],
                                   t.ret + remainder)
    ELSE LET t == AssetTransact(p[h.asset], cash, date)
         IN  IF t.err THEN Unhandled(p)
             ELSE Handled([p EXCEPT ![h.asset] = t.self], t.ret + 0)

\* SequentialCashHandler.handle_cash, and the dispatch on the handler's class.
RECURSIVE HandleCash(_, _, _, _)
RECURSIVE SequentialLoop(_, _, _, _)
SequentialLoop(handlers, p, remaining, date) ==
    IF handlers = <<>> THEN Handled(p, remaining)
    ELSE LET r == HandleCash(Head(handlers), p, remaining, date)
         IN  IF r.err THEN r
             ELSE SequentialLoop(Tail(handlers), r.pool, r.ret, date)

HandleCash(h, p, cash, date) ==
    IF h.type = "basic" THEN BasicHandleCash(h, p, cash, date)
    ELSE IF h.type = "max" THEN MaxValueHandleCash(h, p, cash, date)
    ELSE SequentialLoop(h.handlers, p, cash, date)

---------------------------------------------------------------------------
\* Output: the dictionaries are functions from the names appended so far
\* (a defaultdict(list)), the aggregate series are sequences.
Output ==
    [incomes |-> <<>>, incomes_total |-> <<>>,
     expenses |-> <<>>, expenses_total |-> <<>>,
     liabilities |-> <<>>, liabilities_total |-> <<>>,
     assets |-> <<>>, assets_total |-> <<>>,
     cashflow |-> <<>>, cash_balance |-> <<>>, net_worth |-> <<>>]

\* d[name].append(x) on a defaultdict(list)
AppendTo(d, name, x) ==
    IF name \in DOMAIN d
    THEN [d EXCEPT ![name] = Append(@, x)]
    ELSE d @@ (name :> <<x>>)

\* monthly_date_range(start_date, end_date)
RECURSIVE MonthlyDateRange(_, _)
MonthlyDateRange(start_date, end_date) ==
    IF start_date > end_date THEN <<>>
    ELSE <<start_date>> \o MonthlyDateRange(start_date + 1, end_date)

---------------------------------------------------------------------------
VARIABLES
    mode,            \* "api": the instruments are called directly; "process"
    pool,            \* the instrument objects, by identity
    cfg,             \* the arguments of process()
    call,            \* the last call made on an instrument or a handler
    pc,              \* the position in process()
    idx,             \* the index (from 1) of the date of the loop
    output,          \* process's output
    cash,            \* process's locals
    expenses_total,
    remaining_cash,
    cash_balance,
    results          \* what each call of process() returned or raised

vars == <<mode, pool, cfg, call, pc, idx, output, cash, expenses_total,
          remaining_cash, cash_balance, results>>

procVars == <<pc, idx, output, cash, expenses_total, remaining_cash,
              cash_balance, results>>

NoCall == [op |-> "none"]

\* A call's record: the operation, the handler called (if one), the amount
\* and the date given, the pool before the call, whether the call raised and
\* what it returned.
Call(op, handler, arg, date, before, err, ret) ==
    [op |-> op, handler |-> handler, arg |-> arg, date |-> date,
     before |-> before, err |-> err, ret |-> ret]

---------------------------------------------------------------------------
\* The configurations process() is run on.
Item(name, x) == [name |-> name, obj |-> x]

IncomeChoices ==
    { <<>>,
      <<Item("salary", DateRangeSource(10, 0, NoDate, 0))>>,
      <<Item("salary", DateRangeSource(8, 1, 2, 1))>>,
      <<Item("salary", DateRangeSource(3, 0, NoDate, 0)),
        Item("bonus", OneTimeSource(8, 1))>> }

ExpenseChoices ==
    { <<>>,
      <<Item("rent", DateRangeSource(-5, 0, NoDate, 0))>>,
      <<Item("rent", OneTimeSource(-13, 0))>> }

LiabilityObjects == { Liability(-12, 0, 3, 0), Liability(-12, 1, 2, 1) }
LiabilityChoices ==
    { <<>>, <<Item("loan", "L1")>>, <<Item("rent", "L1")>>,
      <<Item("loan", "L1"), Item("car", "L2")>> }

AssetObjects == { Asset(5, 0, 1), Asset(5, 1, 0) }
AssetChoices == { <<>>, <<Item("fund", "A1")>> }

HandlerChoices ==
    { NoHandler,
      BasicCashHandler("A1"),
      MaxValueCashHandler("A1", 8),
      SequentialCashHandler(<<MaxValueCashHandler("A1", 8),
                              BasicCashHandler("A2")>>) }

Config(dates, incomes, expenses, liabilities, assets, cash_handler) ==
    [dates |-> dates, incomes |-> incomes, expenses |-> expenses,
     liabilities |-> liabilities, assets |-> assets,
     cash_handler |-> cash_handler]

NoConfig == Config(<<>>, <<>>, <<>>, <<>>, <<>>, NoHandler)

\* The instrument objects a configuration refers to.
Objects(liabilities, assets, h, l1, a1) ==
    LET ids == { liabilities[i].obj : i \in 1 .. Len(liabilities) }
               \cup (IF assets # <<>> \/ h # NoHandler THEN {"A1"} ELSE {})
               \cup (IF h.type = "seq" THEN {"A2"} ELSE {})
    IN  [id \in ids |-> IF id = "L1" THEN l1
                        ELSE IF id = "L2" THEN Liability(-5, 0, 2, 0)
                        ELSE IF id = "A1" THEN a1
                        ELSE Asset(0, 0, 0)]

\* The examples: 1000 a month for a year; a loan of 1200 over 12 months at
\* 0%; a month of -500 followed by a month of +800.
ExampleIncome ==
    Config(MonthlyDateRange(0, ExampleMonths - 1),
           <<Item("salary", DateRangeSource(1000, 0, NoDate, 0))>>,
           <<>>, <<>>, <<>>, NoHandler)
ExampleLoan ==
    Config(MonthlyDateRange(0, ExampleMonths - 1),
           <<>>, <<>>, <<Item("loan", "L1")>>, <<>>, NoHandler)
ExampleLoanObject == Liability(-1200, 0, 12, 0)
ExampleOverdraft ==
    Config(MonthlyDateRange(0, ExampleMonths - 1),
           <<Item("bonus", OneTimeSource(800, 1))>>,
           <<Item("rent", OneTimeSource(-500, 0))>>, <<>>, <<>>, NoHandler)

\* Instruments called directly.
ApiInstruments ==
    { Asset(v, d, r) : v \in {0, 5}, d \in {0, 1}, r \in Rates }
    \cup { Liability(-12, d, 3, r) : d \in {0, 1}, r \in Rates }
ApiDates == 0 .. MaxDate
ApiAmounts == {-7, 0, 4}
ApiPayments == {-1, 0, 5, 20}
ApiHandlers ==
    { BasicCashHandler("X"), MaxValueCashHandler("X", 8) }

InitLocals ==
    /\ pc = "idle" /\ idx = 0 /\ output = Output
    /\ cash = 0 /\ expenses_total = 0 /\ remaining_cash = 0
    /\ cash_balance = 0 /\ results = <<>>
    /\ call = NoCall

InitApi ==
    /\ mode = "api"
    /\ \E i \in ApiInstruments : pool = ("X" :> i)
    /\ cfg = NoConfig
    /\ InitLocals

InitGrid ==
    /\ mode = "process"
    /\ \E n \in 0 .. MaxMonths, incomes \in IncomeChoices,
          expenses \in ExpenseChoices, liabilities \in LiabilityChoices,
          assets \in AssetChoices, h \in HandlerChoices,
          l1 \in LiabilityObjects, a1 \in AssetObjects :
        /\ cfg = Config(MonthlyDateRange(0, n - 1), incomes, expenses,
                        liabilities, assets, h)
        /\ pool = Objects(liabilities, assets, h, l1, a1)
    /\ InitLocals

InitExamples ==
    /\ mode = "process"
    /\ \/ cfg = ExampleIncome /\ pool = <<>>
       \/ cfg = ExampleLoan /\ pool = ("L1" :> ExampleLoanObject)
       \/ cfg = ExampleOverdraft /\ pool = <<>>
    /\ InitLocals

Init == InitApi \/ InitGrid \/ InitExamples

---------------------------------------------------------------------------
\* Direct calls on an instrument object "X" and on handlers of it.

\* instrument.value(date)
ApiValue(date) ==
    /\ mode = "api"
    /\ LET v == Value(pool["X"], date)
       IN  call' = Call("value", NoHandler, 0, date, pool, v.err, v.val)
    /\ UNCHANGED <<mode, pool, cfg, procVars>>

\* instrument.reset()
ApiReset ==
    /\ mode = "api"
    /\ pool' = [pool EXCEPT !["X"] = Reset(@)]
    /\ call' = Call("reset", NoHandler, 0, 0, pool, FALSE, 0)
    /\ UNCHANGED <<mode, cfg, procVars>>

\* asset.transact(amount, date)
ApiTransact(amount, date) ==
    /\ mode = "api"
    /\ pool["X"].kind = "asset"
    /\ amount > 0 => pool["X"].value < MaxWorth
    /\ LET t == AssetTransact(pool["X"], amount, date)
       IN  /\ pool' = [pool EXCEPT !["X"] = t.self]
           /\ call' = Call("transact", NoHandler, amount, date, pool, t.err, t.ret)
    /\ UNCHANGED <<mode, cfg, procVars>>

\* liability.minimum_monthly(date)
ApiMinimumMonthly(date) ==
    /\ mode = "api"
    /\ pool["X"].kind = "liability"
    /\ LET m == MinimumMonthly(pool["X"], date)
       IN  call' = Call("minimum_monthly", NoHandler, 0, date, pool, m.err, m.val)
    /\ UNCHANGED <<mode, pool, cfg, procVars>>

\* liability.make_payment(payment, date), with a payment of the caller's
\* choice or with the payment minimum_monthly(date) asks for
ApiMakePayment(payment, date) ==
    /\ mode = "api"
    /\ pool["X"].kind = "liability"
    /\ LET t == MakePayment(pool["X"], payment, date)
       IN  /\ pool' = [pool EXCEPT !["X"] = t.self]
           /\ call' = Call("make_payment", NoHandler, payment, date, pool, t.err, t.ret)
    /\ UNCHANGED <<mode, cfg, procVars>>

ApiPayMinimum(date) ==
    /\ mode = "api"
    /\ pool["X"].kind = "liability"
    /\ ~MinimumMonthly(pool["X"], date).err
    /\ LET payment == MinimumMonthly(pool["X"], date).val
           t == MakePayment(pool["X"], payment, date)
       IN  /\ pool' = [pool EXCEPT !["X"] = t.self]
           /\ call' = Call("pay_minimum", NoHandler, payment, date, pool, t.err, t.ret)
    /\ UNCHANGED <<mode, cfg, procVars>>

\* handler.handle_cash(cash, date)
ApiHandleCash(h, amount, date) ==
    /\ mode = "api"
    /\ pool["X"].kind = "asset"
    /\ amount > 0 => pool["X"].value < MaxWorth
    /\ LET r == HandleCash(h, pool, amount, date)
       IN  /\ pool' = r.pool
           /\ call' = Call("handle_cash", h, amount, date, pool, r.err, r.ret)
    /\ UNCHANGED <<mode, cfg, procVars>>

---------------------------------------------------------------------------
\* process(dates, incomes, expenses, liabilities, assets, cash_handler)

Date == cfg.dates[idx]

SeqRange(items) == { items[i].obj : i \in 1 .. Len(items) }

\* The objects process() resets before its loop.
ResetObjects(liabilities, assets) == SeqRange(liabilities) \cup SeqRange(assets)

\* process: lines 228-236
Start ==
    /\ mode = "process"
    /\ pc = "idle"
    /\ Len(results) < MaxRuns
    /\ output' = Output
    /\ cash_balance' = 0
    /\ pool' = [id \in DOMAIN pool |->
                  IF id \in ResetObjects(cfg.liabilities, cfg.assets)
                  THEN Reset(pool[id]) ELSE pool[id]]
    /\ call' = NoCall
    /\ IF cfg.dates = <<>>
       THEN pc' = "return" /\ idx' = 0
       ELSE pc' = "incomes" /\ idx' = 1
    /\ UNCHANGED <<mode, cfg, cash, expenses_total, remaining_cash, results>>

\* The loop over incomes.items(), and the one over expenses.items() with the
\* sign of its assertion: lines 242-247 and 252-257.
RECURSIVE SourceLoop(_, _, _, _)
SourceLoop(items, date, sign, acc) ==
    IF items = <<>> \/ acc.err THEN acc
    ELSE LET amount == MonthlyAmount(Head(items).obj, date)
         IN  IF sign * amount < 0 THEN [acc EXCEPT !.err = TRUE]
             ELSE SourceLoop(Tail(items), date, sign,
                    [acc EXCEPT !.series = AppendTo(@, Head(items).name, amount),
                                !.cash = @ + amount,
                                !.total = @ + amount])

\* process: lines 239-249
Incomes ==
    /\ pc = "incomes"
    /\ LET acc == SourceLoop(cfg.incomes, Date, 1,
                    [err |-> FALSE, series |-> output.incomes,
                     cash |-> 0, total |-> 0])
       IN  IF acc.err
           THEN pc' = "raised" /\ UNCHANGED <<output, cash>>
           ELSE /\ pc' = "expenses"
                /\ cash' = acc.cash
                /\ output' = [output EXCEPT
                                !.incomes = acc.series,
                                !.incomes_total = Append(@, acc.total)]
    /\ UNCHANGED <<mode, pool, cfg, call, idx, expenses_total,
                   remaining_cash, cash_balance, results>>

\* process: lines 251-257
Expenses ==
    /\ pc = "expenses"
    /\ LET acc == SourceLoop(cfg.expenses, Date, -1,
                    [err |-> FALSE, series |-> output.expenses,
                     cash |-> cash, total |-> 0])
       IN  IF acc.err
           THEN pc' = "raised" /\ UNCHANGED <<output, cash, expenses_total>>
           ELSE /\ pc' = "loans"
                /\ cash' = acc.cash
                /\ expenses_total' = acc.total
                /\ output' = [output EXCEPT !.expenses = acc.series]
    /\ UNCHANGED <<mode, pool, cfg, call, idx, remaining_cash,
                   cash_balance, results>>

\* One liability of the loop over liabilities.items(): lines 261-267.
\* LoanStepKeepsCash is the faulty variant that does not take the payment
\* from cash.
LoanStepKeepsCash(item, date, acc) ==
    LET target == MinimumMonthly(acc.pool[item.obj], date)
        paid   == MakePayment(acc.pool[item.obj], target.val, date)
        payment == target.val - paid.ret
    IN  IF target.err \/ paid.err \/ payment < 0
        THEN [acc EXCEPT !.err = TRUE]
        ELSE [acc EXCEPT !.pool = [@ EXCEPT ![item.obj] = paid.self],
                         !.series = AppendTo(@, item.name, -payment),
                         !.total = @ - payment]

LoanStep(item, date, acc) ==
    LET target == MinimumMonthly(acc.pool[item.obj], date)
        paid   == MakePayment(acc.pool[item.obj], target.val, date)
        payment == target.val - paid.ret
    IN  IF target.err \/ paid.err \/ payment < 0
        THEN [acc EXCEPT !.err = TRUE]
        ELSE [acc EXCEPT !.pool = [@ EXCEPT ![item.obj] = paid.self],
                         !.series = AppendTo(@, item.name, -payment),
                         !.cash = @ - payment,
                         !.total = @ - payment]

\* The loop over liabilities.items(): line 260.
RECURSIVE LoanLoop(_, _, _)
LoanLoop(items, date, acc) ==
    IF items = <<>> \/ acc.err THEN acc
    ELSE LoanLoop(Tail(items), date, LoanStep(Head(items), date, acc))

\* process: lines 259-269
Loans ==
    /\ pc = "loans"
    /\ LET acc == LoanLoop(cfg.liabilities, Date,
                    [err |-> FALSE, pool |-> pool, series |-> output.expenses,
                     cash |-> cash, total |-> expenses_total])
       IN  /\ pool' = acc.pool
           /\ IF acc.err
              THEN pc' = "raised" /\ UNCHANGED <<output, cash, expenses_total>>
              ELSE /\ pc' = "offset"
                   /\ cash' = acc.cash
                   /\ expenses_total' = acc.total
                   /\ output' = [output EXCEPT
                                   !.expenses = acc.series,
                                   !.expenses_total = Append(@, acc.total)]
    /\ UNCHANGED <<mode, cfg, call, idx, remaining_cash, cash_balance, results>>

\* The cash left for the handler once a negative balance is paid back:
\* line 276. OverdraftRemainderNone is the faulty variant that leaves all of
\* the cash to the handler.
OverdraftRemainderNone(c, balance) == c

OverdraftRemainder(c, balance) == Max(0, c + balance)

\* What goes to the negative balance: line 277. OverdraftAppliedNone is the
\* faulty variant that pays nothing back.
OverdraftAppliedNone(c, remainder) == 0

OverdraftApplied(c, remainder) == c - remainder

\* process: lines 271-278
Offset ==
    /\ pc = "offset"
    /\ output' = [output EXCEPT !.cashflow = Append(@, cash)]
    /\ IF cash > 0 /\ cash_balance < 0
       THEN LET remainder == OverdraftRemainder(cash, cash_balance)
            IN  /\ cash_balance' = cash_balance + OverdraftApplied(cash, remainder)
                /\ remaining_cash' = remainder
       ELSE /\ remaining_cash' = cash
            /\ UNCHANGED cash_balance
    /\ pc' = "route"
    /\ UNCHANGED <<mode, pool, cfg, call, idx, cash, expenses_total, results>>

\* process: lines 280-284
Route ==
    /\ pc = "route"
    /\ IF cfg.cash_handler # NoHandler
       THEN LET r == HandleCash(cfg.cash_handler, pool, remaining_cash, Date)
            IN  /\ pool' = r.pool
                /\ call' = Call("handle_cash", cfg.cash_handler, remaining_cash,
                                Date, pool, r.err, r.ret)
                /\ IF r.err
                   THEN pc' = "raised"
                        /\ UNCHANGED <<remaining_cash, cash_balance, output>>
                   ELSE /\ pc' = "readback"
                        /\ remaining_cash' = r.ret
                        /\ cash_balance' = cash_balance + r.ret
                        /\ output' = [output EXCEPT
                             !.cash_balance = Append(@, cash_balance + r.ret)]
       ELSE /\ pc' = "readback"
            /\ cash_balance' = cash_balance + remaining_cash
            /\ output' = [output EXCEPT
                 !.cash_balance = Append(@, cash_balance + remaining_cash)]
            /\ UNCHANGED <<pool, call, remaining_cash>>
    /\ UNCHANGED <<mode, cfg, idx, cash, expenses_total, results>>

\* The loops over liabilities.items() and assets.items() that read the
\* values back, with the sign of their assertions: lines 287-291, 296-300.
RECURSIVE ValueLoop(_, _, _, _)
ValueLoop(items, date, sign, acc) ==
    IF items = <<>> \/ acc.err THEN acc
    ELSE LET v == Value(pool[Head(items).obj], date)
         IN  IF v.err \/ sign * v.val < 0 THEN [acc EXCEPT !.err = TRUE]
             ELSE ValueLoop(Tail(items), date, sign,
                    [acc EXCEPT !.series = AppendTo(@, Head(items).name, v.val),
                                !.total = @ + v.val])

\* process: lines 286-303, and the step to the next date
ReadBack ==
    /\ pc = "readback"
    /\ LET ls == ValueLoop(cfg.liabilities, Date, -1,
                   [err |-> FALSE, series |-> output.liabilities, total |-> 0])
           as == ValueLoop(cfg.assets, Date, 1,
                   [err |-> FALSE, series |-> output.assets, total |-> 0])
       IN  IF ls.err \/ as.err
           THEN pc' = "raised" /\ UNCHANGED <<output, idx>>
           ELSE /\ output' = [output EXCEPT
                     !.liabilities = ls.series,
                     !.liabilities_total = Append(@, ls.total),
                     !.assets = as.series,
                     !.assets_total = Append(@, as.total),
                     !.net_worth = Append(@, as.total + ls.total + cash_balance)]
                /\ IF idx < Len(cfg.dates)
                   THEN pc' = "incomes" /\ idx' = idx + 1
                   ELSE pc' = "return" /\ UNCHANGED idx
    /\ UNCHANGED <<mode, pool, cfg, call, cash, expenses_total,
                   remaining_cash, cash_balance, results>>

\* process: line 305
Return ==
    /\ pc = "return"
    /\ results' = Append(results, [ok |-> TRUE, out |-> output])
    /\ pc' = "idle"
    /\ idx' = 0 /\ cash' = 0 /\ expenses_total' = 0 /\ remaining_cash' = 0
    /\ UNCHANGED <<mode, pool, cfg, call, output, cash_balance>>

\* An assertion failed or value() raised: process() ends with the exception
\* and returns no Output.
Propagate ==
    /\ pc = "raised"
    /\ results' = Append(results, [ok |-> FALSE, out |-> Output])
    /\ pc' = "idle"
    /\ idx' = 0 /\ cash' = 0 /\ expenses_total' = 0 /\ remaining_cash' = 0
    /\ UNCHANGED <<mode, pool, cfg, call, output, cash_balance>>

Next ==
    \/ \E date \in ApiDates : ApiValue(date)
    \/ ApiReset
    \/ \E amount \in ApiAmounts, date \in ApiDates : ApiTransact(amount, date)
    \/ \E date \in ApiDates : ApiMinimumMonthly(date)
    \/ \E payment \in ApiPayments, date \in ApiDates : ApiMakePayment(payment, date)
    \/ \E date \in ApiDates : ApiPayMinimum(date)
    \/ \E h \in ApiHandlers, amount \in ApiAmounts, date \in ApiDates :
          ApiHandleCash(h, amount, date)
    \/ Start
    \/ Incomes
    \/ Expenses
    \/ Loans
    \/ Offset
    \/ Route
    \/ ReadBack
    \/ Return
    \/ Propagate

Spec == Init /\ [][Next]_vars

---------------------------------------------------------------------------
\* Properties.

Last(q) == q[Len(q)]

\* The dates value() is asked for: those of the direct calls, or those of
\* the run.
QueryDates ==
    IF mode = "api" THEN ApiDates
    ELSE { cfg.dates[i] : i \in 1 .. Len(cfg.dates) }

\* The cash balance carried into the month of the loop (0 before the first).
Carried == IF idx <= 1 THEN 0 ELSE output.cash_balance[idx - 1]

\* C1: An asset's value is never negative, at any date it can be asked for,
\* after any sequence of transactions; a withdrawal of more than the value
\* the asset has at the date returns the unmet amount (amount + value, below
\* zero) and leaves the value at that date at exactly 0.
C1_AssetNeverNegative ==
    /\ \A id \in DOMAIN pool : pool[id].kind = "asset" =>
          \A d \in QueryDates :
              ~Value(pool[id], d).err => Value(pool[id], d).val >= 0
    /\ (call.op = "transact" /\ ~call.err /\ call.arg < 0
          /\ -call.arg > Value(call.before["X"], call.date).val) =>
          /\ call.ret = call.arg + Value(call.before["X"], call.date).val
          /\ call.ret < 0
          /\ Value(pool["X"], call.date) = Ok(0)

\* A withdrawal of more than a positive value has been made.
C1_Witness ==
    /\ call.op = "transact" /\ ~call.err /\ call.arg < 0
    /\ Value(call.before["X"], call.date).val > 0
    /\ -call.arg > Value(call.before["X"], call.date).val
    /\ call.ret < 0

\* C2: A liability's value is never positive, whatever payments are made;
\* when minimum_monthly(date) is 0 the value at that date is exactly 0; a
\* payment of minimum_monthly(date) lowers the debt by that payment and
\* leaves no remainder; paid month after month from its start date, the
\* debt read back each month is smaller than the month before, or 0. For the loan of 1200 over 12 months at 0%,
\* minimum_monthly is 100 in each of the 12 months and the value is exactly
\* 0 from the 12th payment on.
C2_LiabilityNeverPositive ==
    /\ \A id \in DOMAIN pool : pool[id].kind = "liability" =>
          \A d \in QueryDates :
              /\ ~Value(pool[id], d).err => Value(pool[id], d).val <= 0
              /\ (~MinimumMonthly(pool[id], d).err
                    /\ MinimumMonthly(pool[id], d).val = 0)
                 => Value(pool[id], d).val = 0
    /\ \A k \in 1 .. Len(cfg.liabilities) :
          LET name == cfg.liabilities[k].name
              loan == pool[cfg.liabilities[k].obj]
          IN  name \in DOMAIN output.liabilities =>
                \A i \in 2 .. Len(output.liabilities[name]) :
                    cfg.dates[i - 1] >= loan.start_date =>
                        \/ output.liabilities[name][i] = 0
                        \/ output.liabilities[name][i]
                             > output.liabilities[name][i - 1]
    /\ (call.op = "pay_minimum" /\ ~call.err) =>
          /\ call.ret = 0
          /\ Value(pool["X"], call.date).val
               = Value(call.before["X"], call.date).val + call.arg
          /\ Value(pool["X"], call.date).val <= 0
    /\ (cfg = ExampleLoan /\ pc = "loans") =>
          MinimumMonthly(pool["L1"], Date).val = (IF idx <= 12 THEN 100 ELSE 0)
    /\ (cfg = ExampleLoan /\ pc \in {"offset", "route", "readback"}) =>
          Value(pool["L1"], Date)
            = Ok(IF idx <= 12 THEN -1200 + 100 * idx ELSE 0)

\* The 12th payment of the example loan has been made.
C2_Witness ==
    /\ cfg = ExampleLoan /\ pc = "readback" /\ idx = 12
    /\ Len(output.expenses["loan"]) = 12
    /\ Last(output.expenses["loan"]) = -100
    /\ Value(pool["L1"], Date) = Ok(0)

\* C3 as stated: value(date) raises for every date earlier than the cursor.
C3_AlwaysRaises ==
    (call.op = "value" /\ call.date < call.before["X"].value_date)
    => call.err

\* C3, amended: value(date) for a date earlier than the cursor raises when
\* the date is at or after the start date, and returns 0 without an error
\* when the date is before the start date.
C3_RaisesFromStartDate ==
    (call.op = "value" /\ call.date < call.before["X"].value_date)
    => IF call.date >= call.before["X"].start_date
       THEN call.err
       ELSE ~call.err /\ call.ret = 0

\* value() has been asked for a date between the start date and the cursor.
C3_Witness ==
    /\ call.op = "value" /\ call.err
    /\ call.date >= call.before["X"].start_date
    /\ call.date < call.before["X"].value_date

\* C4: two runs of process() on the same objects return the same Output.
C4_RunsIdentical ==
    Len(results) >= 2 => results[2] = results[1]

\* C5: when process() returns, every series of the Output has one entry per
\* date.
C5_SeriesAligned ==
    pc = "return" =>
        LET n == Len(cfg.dates)
        IN  /\ Len(output.incomes_total) = n
            /\ Len(output.expenses_total) = n
            /\ Len(output.liabilities_total) = n
            /\ Len(output.assets_total) = n
            /\ Len(output.cashflow) = n
            /\ Len(output.cash_balance) = n
            /\ Len(output.net_worth) = n
            /\ \A name \in DOMAIN output.incomes : Len(output.incomes[name]) = n
            /\ \A name \in DOMAIN output.expenses : Len(output.expenses[name]) = n
            /\ \A name \in DOMAIN output.liabilities :
                  Len(output.liabilities[name]) = n
            /\ \A name \in DOMAIN output.assets : Len(output.assets[name]) = n

\* C6: with no cash handler each recorded cash balance is the one before it
\* (0 before the first date) plus the month's cashflow. 1000 a month gives
\* cash_balance[i] = 1000 * (i + 1) and a net worth of 12000 at the 12th
\* date; -500 followed by a month of +800 gives 300.
C6_BalanceAccumulates ==
    /\ (mode = "process" /\ cfg.cash_handler = NoHandler) =>
          \A i \in 1 .. Len(output.cash_balance) :
              output.cash_balance[i]
                = (IF i = 1 THEN 0 ELSE output.cash_balance[i - 1])
                  + output.cashflow[i]
    /\ cfg = ExampleIncome =>
          /\ \A i \in 1 .. Len(output.cash_balance) :
                output.cash_balance[i] = 1000 * i
          /\ Len(output.net_worth) >= 12 => output.net_worth[12] = 12000
    /\ (cfg = ExampleOverdraft /\ Len(output.cash_balance) >= 2) =>
          /\ output.cash_balance[1] = -500
          /\ output.cashflow[2] = 800
          /\ output.cash_balance[2] = 300

\* The month of +800 has been recorded after the balance of -500.
C6_Witness ==
    /\ cfg = ExampleOverdraft /\ pc = "readback" /\ idx = 2
    /\ output.cash_balance = <<-500, 300>>

\* C7: MaxValueCashHandler.handle_cash with cash > 0 deposits
\* min(cash, max(0, ceiling - value at the date)) and returns the rest, and
\* the value at the date stays at or below a ceiling it was at or below; with
\* cash <= 0 it does what Asset.transact does.
C7_MaxValueHandler ==
    (call.op = "handle_cash" /\ call.handler.type = "max" /\ ~call.err) =>
        LET before  == call.before[call.handler.asset]
            after   == pool[call.handler.asset]
            ceiling == call.handler.max_value
            v       == Value(before, call.date).val
            deposit == Min(call.arg, Max(0, ceiling - v))
        IN  IF call.arg > 0
            THEN /\ after.value = v + deposit
                 /\ after.value_date = call.date
                 /\ call.ret = call.arg - deposit
                 /\ v <= ceiling => Value(after, call.date).val <= ceiling
            ELSE /\ call.ret = AssetTransact(before, call.arg, call.date).ret
                 /\ after = AssetTransact(before, call.arg, call.date).self

\* A deposit has been cut at the ceiling: part deposited, part returned.
C7_Witness ==
    /\ call.op = "handle_cash" /\ call.handler.type = "max" /\ ~call.err
    /\ call.arg > 0 /\ call.ret > 0 /\ call.ret < call.arg
    /\ pool[call.handler.asset].value = call.handler.max_value

\* C8: in a month of positive cash with a negative balance carried in, the
\* balance is paid back first: the handler gets max(0, cash + balance), the
\* balance rises by cash minus that, and then the balance is 0 or nothing is
\* left for the handler; what the handler returns is added to the balance.
C8_OverdraftFirst ==
    /\ (pc = "route" /\ cash > 0 /\ Carried < 0) =>
          /\ remaining_cash = Max(0, cash + Carried)
          /\ cash_balance = Carried + (cash - remaining_cash)
          /\ cash_balance = 0 \/ remaining_cash = 0
    /\ (pc = "readback" /\ cash > 0 /\ Carried < 0
          /\ cfg.cash_handler # NoHandler) =>
          /\ call.op = "handle_cash"
          /\ call.arg = Max(0, cash + Carried)
          /\ cash_balance = Carried + (cash - call.arg) + call.ret
          /\ output.cash_balance[idx] = cash_balance

\* The handler has run on what a paid-back overdraft left over.
C8_Witness ==
    /\ pc = "readback" /\ cash > 0 /\ Carried < 0
    /\ cfg.cash_handler # NoHandler
    /\ call.op = "handle_cash" /\ call.arg > 0 /\ call.arg < cash

\* The sum of the last entries recorded under the names of the liabilities
\* (names that differ from each other).
RECURSIVE Recorded(_, _)
Recorded(items, series) ==
    IF items = <<>> THEN 0
    ELSE Last(series[Head(items).name]) + Recorded(Tail(items), series)

\* C9: each month every liability is paid minimum_monthly(date), whatever
\* the cash: the payment is between 0 and the debt, lowers the debt by that
\* much, is the non-positive entry recorded under the liability's name, and
\* is taken from cash and from the expense total; every recorded cashflow is
\* incomes_total + expenses_total.
C9_LoanPayments ==
    [][ /\ \A i \in 1 .. Len(output'.cashflow) :
              output'.cashflow[i]
                = output'.incomes_total[i] + output'.expenses_total[i]
        /\ (pc = "loans" /\ pc' = "offset") =>
              /\ \A k \in 1 .. Len(cfg.liabilities) :
                    LET item    == cfg.liabilities[k]
                        debt    == -Value(pool[item.obj], Date).val
                        payment == -Last(output'.expenses[item.name])
                    IN  /\ payment = MinimumMonthly(pool[item.obj], Date).val
                        /\ payment >= 0 /\ payment <= debt
                        /\ -Value(pool'[item.obj], Date).val = debt - payment
              /\ cash' = cash + Recorded(cfg.liabilities, output'.expenses)
              /\ expenses_total'
                   = expenses_total + Recorded(cfg.liabilities, output'.expenses)
              /\ Last(output'.expenses_total) = expenses_total'
      ]_vars

\* A loan payment has been made in a month with no cash to pay it from.
C9_Witness ==
    /\ pc = "route" /\ Len(cfg.liabilities) = 2
    /\ \A k \in 1 .. 2 : Last(output.expenses[cfg.liabilities[k].name]) < 0
    /\ Last(output.incomes_total) = 0
    /\ Last(output.cashflow) < 0

\* C10: but for a reset, no call moves an instrument's cursor backwards or
\* before the start date, and value() changes nothing.
C10_CursorMonotone ==
    [][ /\ ~(call'.op = "reset" \/ (mode = "process" /\ pc = "idle")) =>
              \A id \in DOMAIN pool :
                  /\ pool'[id].value_date >= pool[id].value_date
                  /\ pool'[id].value_date >= pool'[id].start_date
        /\ call'.op = "value" => pool' = pool
      ]_vars

====
